---- MODULE Spec2Model ----
\* Task management system (src/ACP FINAL/System.py): the Task codec, the
\* TaskManager store with its backing file, the notification thread that
\* rebuilds upcoming_reminders, and the menu loop of main() that reads them.
EXTENDS Integers, Sequences, FiniteSets, TLC

\* ------------------------------------------------------------------ bounds
\* Most tasks the collection holds (add is refused beyond it in the model).
MaxTasks == 2
\* The clock readings datetime.now() can return are Clock(0) .. Clock(MaxNow).
MaxNow == 3
\* Clock readings per calendar day (reading 0 of a day is its midnight).
TicksPerDay == 2
\* Most add / mark / delete operations the shell runs beside the scanner.
MaxOps == 3

\* -------------------------------------------------------------------- text
\* A Python str is modelled as a sequence of one-character strings.
UpperChars ==
  <<"A","B","C","D","E","F","G","H","I","J","K","L","M",
    "N","O","P","Q","R","S","T","U","V","W","X","Y","Z">>

LowerChars ==
  <<"a","b","c","d","e","f","g","h","i","j","k","l","m",
    "n","o","p","q","r","s","t","u","v","w","x","y","z">>

DigitChars == <<"0","1","2","3","4","5","6","7","8","9">>

Whitespace == {" ", "\t", "\n", "\r"}

lower_char(c) ==
  IF \E i \in 1..Len(UpperChars) : UpperChars[i] = c
  THEN LowerChars[CHOOSE i \in 1..Len(UpperChars) : UpperChars[i] = c]
  ELSE c

\* str.lower()
lower(s) == [i \in 1..Len(s) |-> lower_char(s[i])]

RECURSIVE lstrip(_)
lstrip(s) ==
  IF s # <<>> /\ Head(s) \in Whitespace THEN lstrip(Tail(s)) ELSE s

RECURSIVE rstrip(_)
rstrip(s) ==
  IF s # <<>> /\ s[Len(s)] \in Whitespace
  THEN rstrip(SubSeq(s, 1, Len(s) - 1))
  ELSE s

\* str.strip()
strip(s) == rstrip(lstrip(s))

\* str.split(sep) for a one-character separator
RECURSIVE split(_, _)
split(s, sep) ==
  IF \E i \in 1..Len(s) : s[i] = sep
  THEN LET i == CHOOSE k \in 1..Len(s) :
                  s[k] = sep /\ \A j \in 1..(k - 1) : s[j] # sep
       IN  <<SubSeq(s, 1, i - 1)>> \o split(SubSeq(s, i + 1, Len(s)), sep)
  ELSE <<s>>

\* sep.join(parts)
RECURSIVE join(_, _)
join(parts, sep) ==
  IF parts = <<>> THEN <<>>
  ELSE IF Len(parts) = 1 THEN parts[1]
  ELSE parts[1] \o <<sep>> \o join(Tail(parts), sep)

IsDigit(c) == \E i \in 1..10 : DigitChars[i] = c

DigitVal(c) == (CHOOSE i \in 1..10 : DigitChars[i] = c) - 1

AllDigits(s) == s # <<>> /\ \A i \in 1..Len(s) : IsDigit(s[i])

\* the value of a non-empty run of decimal digits
RECURSIVE digits_value(_)
digits_value(s) ==
  IF s = <<>> THEN 0
  ELSE 10 * digits_value(SubSeq(s, 1, Len(s) - 1)) + DigitVal(s[Len(s)])

\* the decimal digits of n >= 0
RECURSIVE nat_str(_)
nat_str(n) ==
  IF n < 10 THEN <<DigitChars[n + 1]>>
  ELSE nat_str(n \div 10) \o <<DigitChars[(n % 10) + 1]>>

\* str(n) for an int, as an f-string renders {self.priority}
int_str(n) == IF n < 0 THEN <<"-">> \o nat_str(0 - n) ELSE nat_str(n)

\* int(s): surrounding whitespace is ignored, one optional sign, then digits;
\* anything else raises ValueError (ok = FALSE).
int_parse(s) ==
  LET t    == strip(s)
      sgn  == t # <<>> /\ Head(t) \in {"+", "-"}
      body == IF sgn THEN Tail(t) ELSE t
  IN  IF AllDigits(body)
      THEN [ok  |-> TRUE,
            val |-> IF sgn /\ Head(t) = "-"
                    THEN 0 - digits_value(body) ELSE digits_value(body)]
      ELSE [ok |-> FALSE, val |-> 0]

\* n in decimal, left-padded with zeros to width w ('%04d', '%02d')
RECURSIVE zero_pad(_, _)
zero_pad(s, w) == IF Len(s) < w THEN zero_pad(<<"0">> \o s, w) ELSE s

\* ------------------------------------------------------------------- dates
\* A datetime is [year, month, day, tick]; tick 0 is midnight.
IsLeap(y) == (y % 4 = 0 /\ y % 100 # 0) \/ y % 400 = 0

DaysInMonth(y, m) ==
  IF m = 2 THEN (IF IsLeap(y) THEN 29 ELSE 28)
  ELSE IF m \in {4, 6, 9, 11} THEN 30 ELSE 31

\* datetime.strptime(s, '%Y-%m-%d'): four digits, '-', a month of one or two
\* digits in 1..12, '-', a day of one or two digits in 1..31 that exists in
\* that month (a one-digit day may be space padded); the result is midnight
\* of that date. ok = FALSE is ValueError.
strptime(s) ==
  LET p == split(s, "-")
      shaped == /\ Len(p) = 3
                /\ Len(p[1]) = 4 /\ AllDigits(p[1])
                /\ Len(p[2]) \in {1, 2} /\ AllDigits(p[2])
                /\ \/ Len(p[3]) \in {1, 2} /\ AllDigits(p[3])
                   \/ Len(p[3]) = 2 /\ p[3][1] = " " /\ IsDigit(p[3][2])
      y == digits_value(p[1])
      m == digits_value(p[2])
      d == digits_value(lstrip(p[3]))
  IN  IF shaped /\ y >= 1 /\ m \in 1..12 /\ d >= 1 /\ d <= DaysInMonth(y, m)
      THEN [ok |-> TRUE, val |-> [year |-> y, month |-> m, day |-> d, tick |-> 0]]
      ELSE [ok |-> FALSE, val |-> [year |-> 0, month |-> 0, day |-> 0, tick |-> 0]]

\* str(self.deadline.date()): the date part as YYYY-MM-DD, zero padded
date_str(dt) ==
  zero_pad(nat_str(dt.year), 4) \o <<"-">> \o zero_pad(nat_str(dt.month), 2)
    \o <<"-">> \o zero_pad(nat_str(dt.day), 2)

\* a < b on datetimes
dt_less(a, b) ==
  \/ a.year < b.year
  \/ a.year = b.year /\ a.month < b.month
  \/ a.year = b.year /\ a.month = b.month /\ a.day < b.day
  \/ a.year = b.year /\ a.month = b.month /\ a.day = b.day /\ a.tick < b.tick

\* dt + timedelta(days=1)
plus_one_day(dt) ==
  IF dt.day < DaysInMonth(dt.year, dt.month)
  THEN [dt EXCEPT !.day = dt.day + 1]
  ELSE IF dt.month < 12
  THEN [dt EXCEPT !.day = 1, !.month = dt.month + 1]
  ELSE [dt EXCEPT !.day = 1, !.month = 1, !.year = dt.year + 1]

\* ------------------------------------------------------------------- Task
NoTask ==
  [title |-> <<>>, description |-> <<>>, category |-> <<>>, priority |-> 0,
   deadline |-> [year |-> 0, month |-> 0, day |-> 0, tick |-> 0],
   completed |-> FALSE, assigned_user |-> <<>>]

\* Task.__init__: ok = FALSE when strptime raises ValueError
TaskNew(title, description, category, priority, deadline, assigned_user) ==
  LET d == strptime(deadline)
  IN  IF d.ok
      THEN [ok |-> TRUE,
            val |-> [title |-> title, description |-> description,
                     category |-> category, priority |-> priority,
                     deadline |-> d.val, completed |-> FALSE,
                     assigned_user |-> assigned_user]]
      ELSE [ok |-> FALSE, val |-> NoTask]

\* mark_as_completed flipping the flag instead of setting it
mark_as_completed_toggle(t) == [t EXCEPT !.completed = ~t.completed]

\* Task.mark_as_completed
mark_as_completed(t) == [t EXCEPT !.completed = TRUE]

\* str(self.completed)
bool_str(b) == IF b THEN <<"T","r","u","e">> ELSE <<"F","a","l","s","e">>

\* Task.to_file_string
to_file_string(t) ==
  join(<<t.title, t.description, t.category, int_str(t.priority),
         date_str(t.deadline), t.assigned_user, bool_str(t.completed)>>, "|")

\* from_file_string comparing the seventh part to 'True' without lower()
from_file_string_cased(line) ==
  LET parts == split(line, "|")
  IN  IF Len(parts) < 7 THEN [ok |-> FALSE, val |-> NoTask]
      ELSE LET p == int_parse(parts[4])
               t == TaskNew(parts[1], parts[2], parts[3], p.val, parts[5], parts[6])
           IN  IF ~p.ok \/ ~t.ok THEN [ok |-> FALSE, val |-> NoTask]
               ELSE IF parts[7] = <<"t","r","u","e">>
               THEN [ok |-> TRUE, val |-> [t.val EXCEPT !.completed = TRUE]]
               ELSE t

\* Task.from_file_string: ok = FALSE when the line has fewer than 7 parts
\* (IndexError) or int() or strptime raises ValueError; parts beyond the
\* seventh are ignored.
from_file_string(line) ==
  LET parts == split(line, "|")
  IN  IF Len(parts) < 7 THEN [ok |-> FALSE, val |-> NoTask]
      ELSE LET p == int_parse(parts[4])
               t == TaskNew(parts[1], parts[2], parts[3], p.val, parts[5], parts[6])
           IN  IF ~p.ok \/ ~t.ok THEN [ok |-> FALSE, val |-> NoTask]
               ELSE IF lower(parts[7]) = <<"t","r","u","e">>
               THEN [ok |-> TRUE, val |-> mark_as_completed(t.val)]
               ELSE t

\* Task.to_row
to_row(t) ==
  <<t.title, t.description, t.category,
    IF t.priority = 1 THEN <<"H","i","g","h">>
    ELSE IF t.priority = 2 THEN <<"M","e","d","i","u","m">>
    ELSE IF t.priority = 3 THEN <<"L","o","w">>
    ELSE <<"U","n","k","n","o","w","n">>,
    date_str(t.deadline), t.assigned_user,
    IF t.completed THEN <<"Y","e","s">> ELSE <<"N","o">>>>

\* ------------------------------------------------------------- TaskManager
\* database.txt: whether it exists, and its text (lines end with "\n").
NoFile == [exists |-> FALSE, text |-> <<>>]

\* the text save_tasks_to_file writes for a collection
RECURSIVE file_text(_)
file_text(ts) ==
  IF ts = <<>> THEN <<>>
  ELSE to_file_string(Head(ts)) \o <<"\n">> \o file_text(Tail(ts))

\* TaskManager.save_tasks_to_file: open(..., 'w') truncates, then one line
\* per task
save_tasks_to_file(ts) == [exists |-> TRUE, text |-> file_text(ts)]

\* the lines 'for line in file' yields (without their terminators)
file_lines(text) ==
  LET p == split(text, "\n")
  IN  IF p[Len(p)] = <<>> THEN SubSeq(p, 1, Len(p) - 1) ELSE p

\* TaskManager.load_tasks_from_file, from an empty collection: ok = FALSE
\* when from_file_string raises on some line
RECURSIVE load_lines(_)
load_lines(ls) ==
  IF ls = <<>> THEN [ok |-> TRUE, val |-> <<>>]
  ELSE LET t == from_file_string(strip(Head(ls)))
           r == load_lines(Tail(ls))
       IN  IF t.ok /\ r.ok THEN [ok |-> TRUE, val |-> <<t.val>> \o r.val]
           ELSE [ok |-> FALSE, val |-> <<>>]

load_tasks_from_file(f) ==
  IF ~f.exists THEN [ok |-> TRUE, val |-> <<>>] ELSE load_lines(file_lines(f.text))

\* index of the first task whose title matches ignoring case, 0 if none
\* (the loops of mark_task_as_completed and delete_task)
first_match(ts, title) ==
  IF \E i \in 1..Len(ts) : lower(ts[i].title) = lower(title)
  THEN CHOOSE i \in 1..Len(ts) :
         /\ lower(ts[i].title) = lower(title)
         /\ \A j \in 1..(i - 1) : lower(ts[j].title) # lower(title)
  ELSE 0

\* mark_task_as_completed marking every task with the title, not the first
mark_task_as_completed_all(ts, title) ==
  [i \in 1..Len(ts) |->
     IF lower(ts[i].title) = lower(title) THEN mark_as_completed(ts[i]) ELSE ts[i]]

\* TaskManager.mark_task_as_completed: the collection it leaves
mark_task_as_completed(ts, title) ==
  LET i == first_match(ts, title)
  IN  IF i = 0 THEN ts ELSE [ts EXCEPT ![i] = mark_as_completed(ts[i])]

\* delete_task dropping every task with the title, not the first one
delete_task_all(ts, title) ==
  SelectSeq(ts, LAMBDA t : lower(t.title) # lower(title))

\* delete_task removing the last task when none matches (index -1)
delete_task_last(ts, title) ==
  LET i == first_match(ts, title)
  IN  IF i = 0 THEN SubSeq(ts, 1, Len(ts) - 1)
      ELSE SubSeq(ts, 1, i - 1) \o SubSeq(ts, i + 1, Len(ts))

\* TaskManager.delete_task: the collection it leaves
delete_task(ts, title) ==
  LET i == first_match(ts, title)
  IN  IF i = 0 THEN ts ELSE SubSeq(ts, 1, i - 1) \o SubSeq(ts, i + 1, Len(ts))

\* the file after mark_task_as_completed / delete_task: rewritten only when
\* a task was found
file_after(f, ts, title, after) ==
  IF first_match(ts, title) = 0 THEN f ELSE save_tasks_to_file(after)

\* list_tasks_by_category comparing the category as typed, without lower()
list_tasks_by_category_cased(ts, category) ==
  LET m == SelectSeq(ts, LAMBDA t : t.category = category)
  IN  [i \in 1..Len(m) |-> to_row(m[i])]

\* TaskManager.list_tasks_by_category: the rows it prints
RECURSIVE list_tasks_by_category(_, _)
list_tasks_by_category(ts, category) ==
  IF ts = <<>> THEN <<>>
  ELSE (IF lower(Head(ts).category) = lower(category)
        THEN <<to_row(Head(ts))>> ELSE <<>>)
       \o list_tasks_by_category(Tail(ts), category)

\* TaskManager.list_tasks_by_priority: the rows it prints
RECURSIVE list_tasks_by_priority(_, _)
list_tasks_by_priority(ts, priority) ==
  IF ts = <<>> THEN <<>>
  ELSE (IF Head(ts).priority = priority THEN <<to_row(Head(ts))>> ELSE <<>>)
       \o list_tasks_by_priority(Tail(ts), priority)

\* TaskManager.list_tasks: the rows it prints
list_tasks(ts) == [i \in 1..Len(ts) |-> to_row(ts[i])]

\* ------------------------------------------------------------------ inputs
\* What the user types at the prompts of menu option 1:
\* <<title, description, category, priority, deadline, assigned user>>.
Inputs ==
  { <<<<"a">>, <<>>, <<"x">>, 1,
      <<"2","0","2","4","-","0","2","-","2","9">>, <<"u">>>>,
    <<<<"A">>, <<"d">>, <<"X">>, 2,
      <<"2","0","2","4","-","3","-","1">>, <<"u","|","v">>>>,
    <<<<" ","b">>, <<>>, <<"y">>, 7,
      <<"2","0","2","4","-","0","2","-","2","8">>, <<>>>>,
    <<<<"a">>, <<>>, <<"x">>, 1,
      <<"2","0","2","3","-","0","2","-","2","9">>, <<"u">>>> }

\* titles typed at the prompts of options 5 and 6
Titles == { <<"a">>, <<"A">>, <<" ","b">>, <<"b">>, <<"c">> }

\* categories typed at the prompt of option 3
Categories == { <<"x">>, <<"X">>, <<"y">>, <<"z">> }

\* priorities typed at the prompt of option 4
Priorities == { 1, 2, 7 }

\* ------------------------------------------------------------------- clock
ClockStart == [year |-> 2024, month |-> 2, day |-> 28, tick |-> 0]

next_tick(dt) ==
  IF dt.tick + 1 < TicksPerDay THEN [dt EXCEPT !.tick = dt.tick + 1]
  ELSE [plus_one_day(dt) EXCEPT !.tick = 0]

\* the k-th clock reading after ClockStart
RECURSIVE Clock(_)
Clock(k) == IF k = 0 THEN ClockStart ELSE next_tick(Clock(k - 1))

\* ------------------------------------------------------------------- state
VARIABLES
  tasks,                \* self.tasks
  file,                 \* database.txt
  notification_active,  \* self.notification_active
  upcoming_reminders,   \* self.upcoming_reminders
  pc_main,              \* where main() is: "render", "join", "menu", "exited"
  shown,                \* the reminder lines main() last printed
  pc_scan,              \* where notification_thread is
  now,                  \* 'now' of check_upcoming_deadlines
  idx,                  \* position of the iterator of 'for task in self.tasks'
  op,                   \* history: the store operation that completed last
  pre,                  \* history: tasks and file just before that operation
  versions,             \* history: values of self.tasks during the scan cycle
  examined,             \* history: the tasks the scan cycle has examined
  finished,             \* history: the results of all finished scan cycles
  nops,                 \* history: operations the shell has run
  codec                 \* a Task on its way through the codec

vars ==
  <<tasks, file, notification_active, upcoming_reminders, pc_main, shown,
    pc_scan, now, idx, op, pre, versions, examined, finished, nops, codec>>

store_vars == <<tasks, file>>
main_vars == <<pc_main, shown>>
scan_vars == <<upcoming_reminders, pc_scan, now, idx>>
scan_hist == <<versions, examined, finished>>
store_hist == <<op, pre>>

NoOp ==
  [kind |-> "none", arg |-> <<>>, found |-> FALSE, again |-> FALSE, rows |-> <<>>,
   deadline |-> <<>>, scanner |-> "none"]

IdleCodec ==
  [pc |-> "idle", task |-> NoTask, line |-> <<>>,
   out |-> [ok |-> FALSE, val |-> NoTask]]

\* TaskManager.__init__ on a first run (no database.txt), thread started
ProgramInit ==
  /\ tasks = <<>>
  /\ file = NoFile
  /\ notification_active = TRUE
  /\ upcoming_reminders = <<>>
  /\ pc_main = "render"
  /\ shown = <<>>
  /\ pc_scan = "while"
  /\ now = ClockStart
  /\ idx = 0
  /\ op = NoOp
  /\ pre = [tasks |-> <<>>, file |-> NoFile]
  /\ versions = {<<>>}
  /\ examined = <<>>
  /\ finished = {<<>>}
  /\ nops = 0

Init == ProgramInit /\ codec = IdleCodec

\* TaskManager.add_task: the collection it leaves
add_task(ts, task) == Append(ts, task)

\* --------------------------------------------- the store, one call at a time
\* The operations main() runs on the store, each recorded in op with the
\* collection and file it found in pre. The scanner takes no step here: it
\* writes neither self.tasks nor the file.
StoreUp == op.kind # "open_failed"

\* menu option 1: Task(...) then add_task; a ValueError abandons the attempt
StoreAdd ==
  /\ StoreUp
  /\ Len(tasks) < MaxTasks
  /\ \E inp \in Inputs :
       LET t == TaskNew(inp[1], inp[2], inp[3], inp[4], inp[5], inp[6])
       IN  /\ pre' = [tasks |-> tasks, file |-> file]
           /\ IF t.ok
              THEN /\ tasks' = add_task(tasks, t.val)
                   /\ file' = save_tasks_to_file(tasks')
                   /\ op' = [NoOp EXCEPT !.kind = "add", !.arg = inp[1],
                                         !.found = TRUE, !.deadline = inp[5]]
              ELSE /\ UNCHANGED store_vars
                   /\ op' = [NoOp EXCEPT !.kind = "add_rejected", !.arg = inp[1],
                                         !.deadline = inp[5]]
  /\ UNCHANGED <<notification_active, main_vars, scan_vars, scan_hist, nops, codec>>

\* menu option 5
StoreMark ==
  /\ StoreUp
  /\ \E title \in Titles :
       /\ pre' = [tasks |-> tasks, file |-> file]
       /\ tasks' = mark_task_as_completed(tasks, title)
       /\ file' = file_after(file, tasks, title, tasks')
       /\ op' = [NoOp EXCEPT !.kind = "mark", !.arg = title,
                             !.found = (first_match(tasks, title) # 0),
                             !.again = (op.kind = "mark" /\ op.arg = title)]
  /\ UNCHANGED <<notification_active, main_vars, scan_vars, scan_hist, nops, codec>>

\* menu option 6
StoreDelete ==
  /\ StoreUp
  /\ \E title \in Titles :
       /\ pre' = [tasks |-> tasks, file |-> file]
       /\ tasks' = delete_task(tasks, title)
       /\ file' = file_after(file, tasks, title, tasks')
       /\ op' = [NoOp EXCEPT !.kind = "delete", !.arg = title,
                             !.found = (first_match(tasks, title) # 0)]
  /\ UNCHANGED <<notification_active, main_vars, scan_vars, scan_hist, nops, codec>>

\* menu option 3
StoreListCategory ==
  /\ StoreUp
  /\ \E category \in Categories :
       /\ pre' = [tasks |-> tasks, file |-> file]
       /\ op' = [NoOp EXCEPT !.kind = "list_category", !.arg = category,
                             !.rows = list_tasks_by_category(tasks, category)]
  /\ UNCHANGED <<store_vars, notification_active, main_vars, scan_vars,
                 scan_hist, nops, codec>>

\* menu option 7, then the program is run again on the same database.txt:
\* TaskManager.__init__ loads the file; a line that does not parse ends the run
StoreReopen ==
  /\ pre' = [tasks |-> tasks, file |-> file]
  /\ LET l == load_tasks_from_file(file)
     IN  /\ tasks' = l.val
         /\ op' = [NoOp EXCEPT !.kind = IF l.ok THEN "open" ELSE "open_failed"]
  /\ UNCHANGED <<file, notification_active, main_vars, scan_vars, scan_hist,
                 nops, codec>>

NextStore ==
  \/ StoreAdd
  \/ StoreMark
  \/ StoreDelete
  \/ StoreListCategory
  \/ StoreReopen

SpecStore == Init /\ [][NextStore]_vars

\* ------------------------------------------------------ claims on the store
\* positions of the tasks of ts whose title is 'title' ignoring case
Matching(ts, title) == {i \in 1..Len(ts) : lower(ts[i].title) = lower(title)}

\* the lines a collection serializes to, in collection order
SerializedLines(ts) == [i \in 1..Len(ts) |-> to_file_string(ts[i])]

\* C4 as stated: after delete(title) on a store holding a matching task the
\* collection is one shorter and no task with that title remains, duplicates
\* included.
C4_DeleteLeavesNoMatch ==
  (op.kind = "delete" /\ Matching(pre.tasks, op.arg) # {})
    => /\ Len(tasks) = Len(pre.tasks) - 1
       /\ Matching(tasks, op.arg) = {}

\* C4 amended: after delete(title) on a store holding a matching task the
\* collection is one shorter, the first matching task is the one removed and
\* every other task keeps its place in the order; no task with that title
\* remains when exactly one task matched.
C4_DeleteRemovesFirstMatch ==
  (op.kind = "delete" /\ Matching(pre.tasks, op.arg) # {})
    => LET m == Matching(pre.tasks, op.arg)
           k == CHOOSE i \in m : \A j \in m : i <= j
       IN  /\ Len(tasks) = Len(pre.tasks) - 1
           /\ \A i \in 1..Len(tasks) :
                tasks[i] = IF i < k THEN pre.tasks[i] ELSE pre.tasks[i + 1]
           /\ Cardinality(m) = 1 => Matching(tasks, op.arg) = {}

\* a delete has removed one of two tasks with the same title
C4_Witness ==
  /\ op.kind = "delete"
  /\ Cardinality(Matching(pre.tasks, op.arg)) = 2
  /\ Cardinality(Matching(tasks, op.arg)) = 1

\* C5: markCompleted and delete with a title no task matches report not-found
\* and leave the collection and the backing file as they were.
C5_NotFoundChangesNothing ==
  (op.kind \in {"mark", "delete"} /\ Matching(pre.tasks, op.arg) = {})
    => /\ ~op.found
       /\ tasks = pre.tasks
       /\ file = pre.file

\* a delete found no match in a store that holds a task
C5_Witness ==
  /\ op.kind = "delete"
  /\ Matching(pre.tasks, op.arg) = {}
  /\ pre.tasks # <<>>
  /\ pre.file.exists

\* C6: after a completed add, markCompleted (found) or delete (found) the file
\* holds one serialized line per task in collection order and nothing else,
\* and between store operations (open included) file and collection agree.
C6_FileMatchesCollection ==
  op.kind # "open_failed"
    => /\ file.exists => /\ file_lines(file.text) = SerializedLines(tasks)
                         /\ tasks # <<>> => file.text[Len(file.text)] = "\n"
       /\ ~file.exists => tasks = <<>>
       /\ (op.kind = "add" \/ (op.kind \in {"mark", "delete"} /\ op.found))
            => file.exists

\* C6, the part about the rewrite alone: right after a completed add,
\* markCompleted (found) or delete (found) the file is the serialized
\* collection.
C6_RewriteIsComplete ==
  (op.kind = "add" \/ (op.kind \in {"mark", "delete"} /\ op.found))
    => /\ file.exists
       /\ file_lines(file.text) = SerializedLines(tasks)

\* C8: opening a store on the file a previous run wrote yields that run's
\* final collection.
C8_ReopenRestoresCollection ==
  op.kind \in {"open", "open_failed"} => (op.kind = "open" /\ tasks = pre.tasks)

\* C9: a second markCompleted with the same title changes nothing and the
\* matched task is completed.
C9_MarkTwiceIdempotent ==
  (op.kind = "mark" /\ op.again)
    => /\ tasks = pre.tasks
       /\ Matching(tasks, op.arg) # {} =>
            LET m == Matching(tasks, op.arg)
            IN  tasks[CHOOSE i \in m : \A j \in m : i <= j].completed

\* markCompleted has run twice in a row on a title that a task carries
C9_Witness ==
  /\ op.kind = "mark" /\ op.again /\ op.found
  /\ Len(tasks) = MaxTasks

\* C10: listByCategory(c) returns the rows of exactly the tasks whose category
\* is c ignoring case, in insertion order, and leaves the collection alone.
C10_ListByCategory ==
  op.kind = "list_category"
    => LET m == {i \in 1..Len(tasks) : lower(tasks[i].category) = lower(op.arg)}
       IN  /\ Len(op.rows) = Cardinality(m)
           /\ \A i \in m :
                op.rows[Cardinality({j \in m : j <= i})] = to_row(tasks[i])
           /\ tasks = pre.tasks
           /\ file = pre.file

\* a listing returned a task whose category differs from c in case only and
\* left another task out
C10_Witness ==
  /\ op.kind = "list_category"
  /\ Len(op.rows) = 1
  /\ Len(tasks) = 2
  /\ \E i \in 1..Len(tasks) :
       /\ tasks[i].category # op.arg
       /\ lower(tasks[i].category) = lower(op.arg)


\* s is a date written as YYYY-MM-DD: four digits, two digits, two digits
IsoDate(s) ==
  /\ Len(s) = 10
  /\ s[5] = "-" /\ s[8] = "-"
  /\ \A i \in {1, 2, 3, 4, 6, 7, 9, 10} : IsDigit(s[i])
  /\ LET y == digits_value(SubSeq(s, 1, 4))
         m == digits_value(SubSeq(s, 6, 7))
         d == digits_value(SubSeq(s, 9, 10))
     IN  y >= 1 /\ m \in 1..12 /\ d >= 1 /\ d <= DaysInMonth(y, m)

\* C12: option 1 with a deadline that is not a date written as YYYY-MM-DD
\* is rejected: no task is appended, collection and file stay as they were.
C12_BadDeadlineRejected ==
  (op.kind \in {"add", "add_rejected"} /\ ~IsoDate(op.deadline))
    => (op.kind = "add_rejected" /\ tasks = pre.tasks /\ file = pre.file)

\* the same for a deadline that names no calendar date at all, padded or
\* not: this much holds
C12_NoDateRejected ==
  (op.kind \in {"add", "add_rejected"} /\ ~strptime(op.deadline).ok)
    => (op.kind = "add_rejected" /\ tasks = pre.tasks /\ file = pre.file)


\* C14: option 5 with a title some task has (ignoring case) sets completed
\* on the first such task and on no other; every other task, later ones of
\* the same title included, keeps all its fields, and the collection keeps
\* its length and order.
C14_MarkFirstMatchOnly ==
  (op.kind = "mark" /\ Matching(pre.tasks, op.arg) # {})
    => LET k == CHOOSE i \in Matching(pre.tasks, op.arg) :
                  \A j \in Matching(pre.tasks, op.arg) : i <= j
       IN  /\ Len(tasks) = Len(pre.tasks)
           /\ \A i \in 1..Len(tasks) :
                tasks[i] = IF i = k
                           THEN [pre.tasks[i] EXCEPT !.completed = TRUE]
                           ELSE pre.tasks[i]

\* option 5 found two open tasks whose titles match the typed one, the first
\* in another case: the first is completed now, the second is still open
C14_Witness ==
  /\ op.kind = "mark"
  /\ Matching(pre.tasks, op.arg) = {1, 2}
  /\ pre.tasks[1].title # op.arg
  /\ ~pre.tasks[1].completed /\ tasks[1].completed
  /\ ~tasks[2].completed


\* where the task at position i before the last operation stands after it:
\* 0 when that operation deleted it
PositionAfter(i) ==
  LET m == IF op.kind = "delete" THEN Matching(pre.tasks, op.arg) ELSE {}
      k == IF m = {} THEN 0 ELSE CHOOSE x \in m : \A y \in m : x <= y
  IN  IF k = 0 \/ i < k THEN i ELSE IF i = k THEN 0 ELSE i - 1

\* C15: a task that was completed before an operation of the store (add,
\* mark, delete, list, reopen from the file) and is still in the store
\* after it is completed after it.
C15_CompletedStaysCompleted ==
  op.kind # "open_failed"
    => \A i \in 1..Len(pre.tasks) :
         (pre.tasks[i].completed /\ PositionAfter(i) # 0)
           => /\ PositionAfter(i) <= Len(tasks)
              /\ tasks[PositionAfter(i)].completed

\* the same for a task with no "|" in its assigned user (the other text
\* fields typed at option 1 here have none): this much holds
C15_CompletedStaysWithoutDelimiter ==
  op.kind # "open_failed"
    => \A i \in 1..Len(pre.tasks) :
         (/\ pre.tasks[i].completed
          /\ PositionAfter(i) # 0
          /\ Len(split(pre.tasks[i].assigned_user, "|")) = 1)
           => /\ PositionAfter(i) <= Len(tasks)
              /\ tasks[PositionAfter(i)].completed

\* ------------------------------------------------------------- the codec
\* Field values of the Tasks sent through to_file_string / from_file_string:
\* none holds the delimiter; priorities lie inside and outside 1..3.
CodecTitles == { <<>>, <<"a">>, <<" ","A","b"," ">> }
CodecDescriptions == { <<>>, <<"d"," ","d">> }
CodecPriorities == { 0 - 5, 0, 2, 10 }
CodecDeadlines ==
  { <<"2","0","2","4","-","0","2","-","2","9">>,
    <<"2","0","2","4","-","3","-","1">>,
    <<"0","9","9","9","-","1","2","-","3","1">>,
    <<"2","0","2","5","-","1","-"," ","5">> }
CodecUsers == { <<>>, <<"u">> }

CodecTasks ==
  { IF c THEN mark_as_completed(TaskNew(t, d, <<"x">>, p, dl, u).val)
         ELSE TaskNew(t, d, <<"x">>, p, dl, u).val :
      t \in CodecTitles, d \in CodecDescriptions, p \in CodecPriorities,
      dl \in CodecDeadlines, u \in CodecUsers, c \in BOOLEAN }

InitCodec ==
  /\ ProgramInit
  /\ \E t \in CodecTasks : codec = [IdleCodec EXCEPT !.pc = "made", !.task = t]

CodecWrite ==
  /\ codec.pc = "made"
  /\ codec' = [codec EXCEPT !.pc = "written", !.line = to_file_string(codec.task)]
  /\ UNCHANGED <<store_vars, notification_active, main_vars, scan_vars,
                 scan_hist, store_hist, nops>>

CodecRead ==
  /\ codec.pc = "written"
  /\ codec' = [codec EXCEPT !.pc = "read", !.out = from_file_string(codec.line)]
  /\ UNCHANGED <<store_vars, notification_active, main_vars, scan_vars,
                 scan_hist, store_hist, nops>>

NextCodec ==
  \/ CodecWrite
  \/ CodecRead

SpecCodec == InitCodec /\ [][NextCodec]_vars

\* C7: from_file_string(to_file_string(t)) has the title, description,
\* category, priority, deadline, assigned user and completed flag of t, for
\* every Task t whose fields hold no '|'.
C7_RoundTrip ==
  codec.pc = "read"
    => /\ codec.out.ok
       /\ codec.out.val.title = codec.task.title
       /\ codec.out.val.description = codec.task.description
       /\ codec.out.val.category = codec.task.category
       /\ codec.out.val.priority = codec.task.priority
       /\ codec.out.val.deadline = codec.task.deadline
       /\ codec.out.val.assigned_user = codec.task.assigned_user
       /\ codec.out.val.completed = codec.task.completed

\* a completed Task with a negative priority, blanks around its title and a
\* deadline typed without zero padding has been through the codec
C7_Witness ==
  /\ codec.pc = "read"
  /\ codec.task.completed
  /\ codec.task.priority < 0
  /\ codec.task.title = <<" ","A","b"," ">>
  /\ codec.task.deadline = [year |-> 2025, month |-> 1, day |-> 5, tick |-> 0]

\* ------------------------------------------- the shell beside the scanner
\* Two threads share the TaskManager with no lock: main() and the daemon
\* thread of notification_thread. The interpreter switches between them
\* between bytecodes, so each list operation (append, remove, clear, the
\* iterator's next) is one step. A store operation of main() is one step
\* here: its single list mutation is atomic, and the file it then rewrites is
\* touched by main() alone. One turn of the scanner's loop (fetch the next
\* task, test it, append its line) is one step as well.
\* the test of line 135 with 'deadline >= now' for 'deadline > now'
due_from_now(task, n) ==
  /\ ~task.completed
  /\ ~dt_less(task.deadline, n)
  /\ dt_less(task.deadline, plus_one_day(n))

\* line 135: not completed and now < deadline < now + 24h
due(task, n) ==
  /\ ~task.completed
  /\ dt_less(n, task.deadline)
  /\ dt_less(task.deadline, plus_one_day(n))

\* line 136: the reminder line of a task
reminder_line(task) ==
  <<"T","a","s","k"," ","'">> \o task.title
    \o <<"'"," ","h","a","s"," ","a"," ","d","e","a","d","l","i","n","e"," ",
         "w","i","t","h","i","n"," ","2","4"," ","h","o","u","r","s","!">>

\* the scan cycle is between its capture of 'now' and the end of its loop
InCycle == pc_scan \in {"clear", "for"}

\* the collection values the running scan cycle has lived through
Seen(ts) == IF InCycle THEN versions \cup {ts} ELSE versions

\* main(), line 149: 'if task_manager.upcoming_reminders'
RenderCheck ==
  /\ pc_main = "render"
  /\ IF upcoming_reminders # <<>>
     THEN pc_main' = "join" /\ UNCHANGED shown
     ELSE pc_main' = "menu" /\ shown' = <<>>
  /\ UNCHANGED <<store_vars, notification_active, scan_vars, scan_hist,
                 store_hist, nops, codec>>

\* main(), line 151: the lines of upcoming_reminders are joined and printed
RenderJoin ==
  /\ pc_main = "join"
  /\ shown' = upcoming_reminders
  /\ pc_main' = "menu"
  /\ UNCHANGED <<store_vars, notification_active, scan_vars, scan_hist,
                 store_hist, nops, codec>>

\* main(), option 1
ShellAdd ==
  /\ pc_main = "menu"
  /\ nops < MaxOps
  /\ Len(tasks) < MaxTasks
  /\ \E inp \in Inputs :
       LET t == TaskNew(inp[1], inp[2], inp[3], inp[4], inp[5], inp[6])
       IN  IF t.ok
           THEN /\ tasks' = add_task(tasks, t.val)
                /\ file' = save_tasks_to_file(tasks')
           ELSE UNCHANGED store_vars
  /\ versions' = Seen(tasks')
  /\ nops' = nops + 1
  /\ pc_main' = "render"
  /\ UNCHANGED <<notification_active, shown, scan_vars, examined, finished,
                 store_hist, codec>>

\* option 5 taking the reminders down as well
ShellMark_clearing ==
  /\ pc_main = "menu"
  /\ nops < MaxOps
  /\ \E title \in Titles :
       /\ tasks' = mark_task_as_completed(tasks, title)
       /\ file' = file_after(file, tasks, title, tasks')
  /\ upcoming_reminders' = <<>>
  /\ versions' = Seen(tasks')
  /\ nops' = nops + 1
  /\ pc_main' = "render"
  /\ UNCHANGED <<notification_active, shown, pc_scan, now, idx, examined,
                 finished, store_hist, codec>>

\* main(), option 5
ShellMark ==
  /\ pc_main = "menu"
  /\ nops < MaxOps
  /\ \E title \in Titles :
       /\ tasks' = mark_task_as_completed(tasks, title)
       /\ file' = file_after(file, tasks, title, tasks')
  /\ versions' = Seen(tasks')
  /\ nops' = nops + 1
  /\ pc_main' = "render"
  /\ UNCHANGED <<notification_active, shown, scan_vars, examined, finished,
                 store_hist, codec>>

\* main(), option 6
ShellDelete ==
  /\ pc_main = "menu"
  /\ nops < MaxOps
  /\ \E title \in Titles :
       /\ tasks' = delete_task(tasks, title)
       /\ file' = file_after(file, tasks, title, tasks')
  /\ versions' = Seen(tasks')
  /\ nops' = nops + 1
  /\ pc_main' = "render"
  /\ UNCHANGED <<notification_active, shown, scan_vars, examined, finished,
                 store_hist, codec>>

\* main(), options 2, 3 and 4: list_tasks, list_tasks_by_category and
\* list_tasks_by_priority read self.tasks and print its rows; they assign
\* nothing, and main() goes round its loop
ShellList ==
  /\ pc_main = "menu"
  /\ pc_main' = "render"
  /\ UNCHANGED <<store_vars, notification_active, shown, scan_vars, scan_hist,
                 store_hist, nops, codec>>

\* main(), option 7: stop_notifications, then break; op records where the
\* scanner stood when the flag was cleared
ShellExit ==
  /\ pc_main = "menu"
  /\ notification_active' = FALSE
  /\ pc_main' = "exited"
  /\ op' = [NoOp EXCEPT !.kind = "close", !.scanner = pc_scan]
  /\ UNCHANGED <<store_vars, shown, scan_vars, scan_hist, pre, nops, codec>>

\* main() has returned: the interpreter exits and the daemon thread
\* (line 123) ends with it, wherever it stands
ProcessExit ==
  /\ pc_main = "exited"
  /\ pc_scan \notin {"done", "killed"}
  /\ pc_scan' = "killed"
  /\ UNCHANGED <<store_vars, notification_active, main_vars, upcoming_reminders,
                 now, idx, scan_hist, store_hist, nops, codec>>

\* a loop that never tests the flag ('while True')
ScanWhile_forever ==
  /\ pc_scan = "while"
  /\ pc_scan' = "now"
  /\ UNCHANGED <<store_vars, notification_active, main_vars, upcoming_reminders,
                 now, idx, scan_hist, store_hist, nops, codec>>

\* notification_thread, line 126: 'while self.notification_active'
ScanWhile ==
  /\ pc_scan = "while"
  /\ pc_scan' = IF notification_active THEN "now" ELSE "done"
  /\ UNCHANGED <<store_vars, notification_active, main_vars, upcoming_reminders,
                 now, idx, scan_hist, store_hist, nops, codec>>

\* check_upcoming_deadlines, line 131: the clock never runs backwards
ScanNow ==
  /\ pc_scan = "now"
  /\ \E k \in 0..MaxNow : ~dt_less(Clock(k), now) /\ now' = Clock(k)
  /\ pc_scan' = "clear"
  /\ versions' = {tasks}
  /\ examined' = <<>>
  /\ UNCHANGED <<store_vars, notification_active, main_vars, upcoming_reminders,
                 idx, finished, store_hist, nops, codec>>

\* a scan that adds to the lines of the scan before instead of clearing them
ScanClear_keeping ==
  /\ pc_scan = "clear"
  /\ idx' = 0
  /\ pc_scan' = "for"
  /\ UNCHANGED <<store_vars, notification_active, main_vars, upcoming_reminders,
                 now, scan_hist, store_hist, nops, codec>>

\* line 132: self.upcoming_reminders.clear(); line 134 makes the iterator
ScanClear ==
  /\ pc_scan = "clear"
  /\ upcoming_reminders' = <<>>
  /\ idx' = 0
  /\ pc_scan' = "for"
  /\ UNCHANGED <<store_vars, notification_active, main_vars, now, scan_hist,
                 store_hist, nops, codec>>

\* a loop whose iterator raises once the collection has changed under it (as
\* the iterator of a dict does): the exception ends the thread
ScanFor_raising ==
  /\ pc_scan = "for"
  /\ IF Cardinality(versions) > 1
     THEN /\ pc_scan' = "done"
          /\ UNCHANGED <<idx, examined, upcoming_reminders, finished>>
     ELSE IF idx < Len(tasks)
     THEN /\ idx' = idx + 1
          /\ examined' = Append(examined, tasks[idx + 1])
          /\ upcoming_reminders' =
               IF due(tasks[idx + 1], now)
               THEN Append(upcoming_reminders, reminder_line(tasks[idx + 1]))
               ELSE upcoming_reminders
          /\ UNCHANGED <<pc_scan, finished>>
     ELSE /\ pc_scan' = "sleep"
          /\ finished' = finished \cup {upcoming_reminders}
          /\ UNCHANGED <<idx, examined, upcoming_reminders>>
  /\ UNCHANGED <<store_vars, notification_active, main_vars, now, versions,
                 store_hist, nops, codec>>

\* lines 134-136: the list iterator yields self.tasks[idx] while idx is below
\* the current length; a due task gets its line appended
ScanFor ==
  /\ pc_scan = "for"
  /\ IF idx < Len(tasks)
     THEN /\ idx' = idx + 1
          /\ examined' = Append(examined, tasks[idx + 1])
          /\ upcoming_reminders' =
               IF due(tasks[idx + 1], now)
               THEN Append(upcoming_reminders, reminder_line(tasks[idx + 1]))
               ELSE upcoming_reminders
          /\ UNCHANGED <<pc_scan, finished>>
     ELSE /\ pc_scan' = "sleep"
          /\ finished' = finished \cup {upcoming_reminders}
          /\ UNCHANGED <<idx, examined, upcoming_reminders>>
  /\ UNCHANGED <<store_vars, notification_active, main_vars, now, versions,
                 store_hist, nops, codec>>

\* a loop that scans again after the sleep without testing the flag
ScanWake_untested ==
  /\ pc_scan = "sleep"
  /\ pc_scan' = "now"
  /\ UNCHANGED <<store_vars, notification_active, main_vars, upcoming_reminders,
                 now, idx, scan_hist, store_hist, nops, codec>>

\* line 128: time.sleep(60) returns
ScanWake ==
  /\ pc_scan = "sleep"
  /\ pc_scan' = "while"
  /\ UNCHANGED <<store_vars, notification_active, main_vars, upcoming_reminders,
                 now, idx, scan_hist, store_hist, nops, codec>>

Next ==
  \/ RenderCheck
  \/ RenderJoin
  \/ ShellAdd
  \/ ShellMark
  \/ ShellDelete
  \/ ShellList
  \/ ShellExit
  \/ ProcessExit
  \/ ScanWhile
  \/ ScanNow
  \/ ScanClear
  \/ ScanFor
  \/ ScanWake

Spec == Init /\ [][Next]_vars

\* the steps of notification_thread
Scanner ==
  \/ ScanWhile
  \/ ScanNow
  \/ ScanClear
  \/ ScanFor
  \/ ScanWake

\* The thread is scheduled again and again while it can run (the interpreter
\* hands the lock on at every switch interval, and time.sleep returns);
\* nothing is assumed of main(), which waits for the user.
SpecLive == Init /\ [][Next]_vars /\ WF_vars(Scanner)

\* ---------------------------------------------------- claims on the scanner
\* C1: what main() read of the snapshot is the initial empty snapshot or the
\* complete result of a finished scan cycle (judged once no scan cycle is
\* under way, so that the cycle the read fell into has finished too; a cycle
\* the interpreter's exit cut short never finishes and is not judged).
C1_ReaderSeesCompleteSnapshot ==
  (~InCycle /\ pc_scan # "killed") => shown \in finished

\* C2: the tasks a finished scan cycle examined are the collection as it
\* stood at one point of that cycle.
C2_ScanSeesOneVersion == pc_scan = "sleep" => examined \in versions

\* C3: a scan cycle during which the collection never changed leaves one
\* reminder line per task that is not completed and has
\* now < deadline < now + 24h, in collection order, and nothing else.
C3_SnapshotIsTheDueTasks ==
  (pc_scan = "sleep" /\ Cardinality(versions) = 1)
    => LET ts == CHOOSE v \in versions : TRUE
           m  == {i \in 1..Len(ts) :
                    /\ ~ts[i].completed
                    /\ dt_less(now, ts[i].deadline)
                    /\ dt_less(ts[i].deadline, plus_one_day(now))}
       IN  /\ Len(upcoming_reminders) = Cardinality(m)
           /\ \A i \in m :
                upcoming_reminders[Cardinality({j \in m : j <= i})]
                  = reminder_line(ts[i])

\* a scan cycle nothing interleaved with has passed over two open tasks, one
\* with its deadline at 'now' and one with its deadline at now + 24h, and
\* left no line; an earlier cycle left one
C3_Witness ==
  /\ pc_scan = "sleep"
  /\ Cardinality(versions) = 1
  /\ Len(examined) = 2
  /\ \E i, j \in 1..2 :
       /\ ~examined[i].completed /\ examined[i].deadline = now
       /\ ~examined[j].completed /\ examined[j].deadline = plus_one_day(now)
  /\ upcoming_reminders = <<>>
  /\ Cardinality(finished) > 1


\* the scanner is inside a turn of its loop: the test of line 126 has let it
\* in and the loop of line 134 has not ended
InFlight == pc_scan \in {"now", "clear", "for"}

\* C13: once stop_notifications has cleared the flag, the scanner enters no
\* further turn of its loop (a turn begins with the test of line 126): a
\* scanner outside a turn, sleeping or about to test the flag, stays outside;
\* only a turn that was let in before the flag was cleared goes on.
C13_NoCycleAfterClose ==
  [][(~notification_active /\ ~InFlight) => ~InFlight']_vars

\* the flag was cleared while the scanner slept, and the scanner has left
\* its loop; its last result is still the snapshot
C13_Witness ==
  /\ op.kind = "close"
  /\ op.scanner = "sleep"
  /\ pc_scan = "done"
  /\ upcoming_reminders # <<>>


\* C16: once stop_notifications has cleared the flag, the scanner, scheduled
\* fairly, comes to an end: it finishes the scan or the sleep it is in, tests
\* the flag and leaves its loop (or the interpreter's exit ends it first).
C16_ScannerTerminates ==
  (~notification_active) ~> (pc_scan \in {"done", "killed"})

\* the flag was cleared in the middle of a scan, and the scanner has left
\* its loop by itself
C16_Witness ==
  /\ op.kind = "close"
  /\ op.scanner = "for"
  /\ pc_scan = "done"

\* C17: as long as the flag stays true the scanner, scheduled fairly, enters
\* a new turn of its loop again and again, whatever add, mark and delete do
\* in between: no interleaving stops it or makes it fail.
C17_ScannerKeepsRunning ==
  ([]notification_active) => ([]<>(pc_scan = "now"))

\* the collection changed under the scan that has just finished, the shell
\* has run all its operations, and the scanner has entered its next turn
C17_Witness ==
  /\ notification_active
  /\ pc_scan = "now"
  /\ Cardinality(versions) > 1
  /\ examined \notin versions
  /\ nops = MaxOps


\* C18: a step of the scanner (its position or its iterator moves) leaves
\* the collection, the file and the flag as they are, and a step of main()
\* (add, mark, delete, the lists, stop_notifications) leaves the snapshot as
\* it is.
C18_ScanWritesOnlySnapshot ==
  [][/\ (pc_scan' # pc_scan \/ idx' # idx)
         => UNCHANGED <<tasks, file, notification_active>>
     /\ (pc_main' # pc_main)
         => upcoming_reminders' = upcoming_reminders]_vars

\* two lines were left by a scan; since then the first task was marked
\* completed and the flag cleared, and the two lines are still there
C18_Witness ==
  /\ op.kind = "close"
  /\ Len(upcoming_reminders) = 2
  /\ Len(tasks) = 2
  /\ tasks[1].completed
  /\ file = save_tasks_to_file(tasks)


\* C19: when a scan cycle ends, every line of the snapshot is the line of a
\* task that was in the collection, not completed and due within 24 hours of
\* the cycle's 'now', at some moment of that cycle. So a task marked
\* completed or deleted before the cycle began has no line left, unless
\* another open task of the same title, due as well, was there.
C19_NoLineOfGoneTask ==
  pc_scan = "sleep"
    => \A k \in 1..Len(upcoming_reminders) :
         \E v \in versions : \E i \in 1..Len(v) :
           /\ reminder_line(v[i]) = upcoming_reminders[k]
           /\ ~v[i].completed
           /\ dt_less(now, v[i].deadline)
           /\ dt_less(v[i].deadline, plus_one_day(now))

\* an earlier scan left a line for the first task; the task was marked
\* completed since, its deadline is still within 24 hours, and the scan that
\* has just ended left no line
C19_Witness ==
  /\ pc_scan = "sleep"
  /\ notification_active
  /\ upcoming_reminders = <<>>
  /\ tasks # <<>>
  /\ tasks[1].completed
  /\ dt_less(now, tasks[1].deadline)
  /\ dt_less(tasks[1].deadline, plus_one_day(now))
  /\ \E r \in finished : \E k \in 1..Len(r) : r[k] = reminder_line(tasks[1])

\* ------------------------------------------ opening the file as it is found
\* Most lines of the database.txt the program is started on.
MaxLines == 2

\* lines such a file may hold: two well-formed ones, one of five parts, one
\* of eight parts, an empty one, one whose priority is no integer and one
\* whose deadline is no date
OpenLines ==
  { join(<<<<"a">>, <<>>, <<"x">>, <<"1">>,
           <<"2","0","2","4","-","0","2","-","2","9">>, <<"u">>,
           <<"F","a","l","s","e">>>>, "|"),
    join(<<<<"b">>, <<"d">>, <<"y">>, <<"2">>,
           <<"2","0","2","4","-","0","3","-","0","1">>, <<>>,
           <<"T","r","u","e">>>>, "|"),
    join(<<<<"a">>, <<>>, <<"x">>, <<"1">>,
           <<"2","0","2","4","-","0","2","-","2","9">>>>, "|"),
    join(<<<<"a">>, <<>>, <<"x">>, <<"1">>,
           <<"2","0","2","4","-","0","2","-","2","9">>, <<"u">>,
           <<"T","r","u","e">>, <<"e","x","t","r","a">>>>, "|"),
    <<>>,
    join(<<<<"a">>, <<>>, <<"x">>, <<"o","n","e">>,
           <<"2","0","2","4","-","0","2","-","2","9">>, <<"u">>,
           <<"F","a","l","s","e">>>>, "|"),
    join(<<<<"a">>, <<>>, <<"x">>, <<"1">>,
           <<"2","0","2","3","-","0","2","-","2","9">>, <<"u">>,
           <<"F","a","l","s","e">>>>, "|") }

\* the text of a file holding the lines ls
RECURSIVE lines_text(_)
lines_text(ls) ==
  IF ls = <<>> THEN <<>> ELSE Head(ls) \o <<"\n">> \o lines_text(Tail(ls))

\* the program has not been started: no database.txt, or one of up to
\* MaxLines lines
InitOpen ==
  /\ tasks = <<>>
  /\ file \in {NoFile} \cup
       { [exists |-> TRUE, text |-> lines_text(ls)] :
           ls \in UNION { [1..n -> OpenLines] : n \in 0..MaxLines } }
  /\ notification_active = FALSE
  /\ upcoming_reminders = <<>>
  /\ pc_main = "start"
  /\ shown = <<>>
  /\ pc_scan = "unstarted"
  /\ now = ClockStart
  /\ idx = 0
  /\ op = NoOp
  /\ pre = [tasks |-> <<>>, file |-> NoFile]
  /\ versions = {<<>>}
  /\ examined = <<>>
  /\ finished = {<<>>}
  /\ nops = 0
  /\ codec = IdleCodec

\* main(), line 143: TaskManager(). __init__ loads the file and only then
\* starts the thread; an exception of the load leaves main() without a
\* manager (no tasks) and the thread unstarted
TaskManagerInit ==
  /\ pc_main = "start"
  /\ notification_active' = TRUE
  /\ pre' = [tasks |-> tasks, file |-> file]
  /\ LET l == load_tasks_from_file(file)
     IN  IF l.ok
         THEN /\ tasks' = l.val
              /\ pc_scan' = "while"
              /\ pc_main' = "render"
              /\ op' = [NoOp EXCEPT !.kind = "open"]
         ELSE /\ tasks' = <<>>
              /\ pc_scan' = "unstarted"
              /\ pc_main' = "crashed"
              /\ op' = [NoOp EXCEPT !.kind = "open_failed"]
  /\ UNCHANGED <<file, upcoming_reminders, shown, now, idx, scan_hist, nops,
                 codec>>

NextOpen == TaskManagerInit

SpecOpen == InitOpen /\ [][NextOpen]_vars

\* the lines of database.txt
OpenedLines == IF file.exists THEN file_lines(file.text) ELSE <<>>

\* C11: when some line of the file does not split on "|" into exactly seven
\* parts, or has a fourth part that is no integer or a fifth part that is no
\* date, the open fails, no task is available (no well-formed prefix either)
\* and the scanner is not started.
C11_MalformedLineFailsOpen ==
  (/\ pc_main # "start"
   /\ \E i \in 1..Len(OpenedLines) :
        LET parts == split(OpenedLines[i], "|")
        IN  \/ Len(parts) # 7
            \/ ~int_parse(parts[4]).ok
            \/ ~strptime(parts[5]).ok)
    => (op.kind = "open_failed" /\ tasks = <<>> /\ pc_scan = "unstarted")

\* the same for a line of fewer than seven parts, or of seven parts or more
\* with a fourth part that is no integer or a fifth part that is no date:
\* this much holds
C11_ShortOrUnreadableLineFailsOpen ==
  (/\ pc_main # "start"
   /\ \E i \in 1..Len(OpenedLines) :
        LET parts == split(OpenedLines[i], "|")
        IN  \/ Len(parts) < 7
            \/ ~int_parse(parts[4]).ok
            \/ ~strptime(parts[5]).ok)
    => (op.kind = "open_failed" /\ tasks = <<>> /\ pc_scan = "unstarted")

====
